---- MODULE Spec2Model ----
(***************************************************************************)
(* VoiceVite: the guest call-state machine of app.py.                      *)
(*                                                                         *)
(* The database (events, guests, rsvps) is the only shared state.  Every   *)
(* HTTP handler is one action of Spec; ConcSpec splits the two /webhook    *)
(* branches at their database reads and writes.  Every database helper of  *)
(* postgres_client.py commits on its own and is modelled as succeeding.    *)
(*                                                                         *)
(* Text that the code processes (lower(), capitalize(), int()) is a        *)
(* sequence of one-character strings; text that the code only stores or    *)
(* compares is a TLA+ string.                                              *)
(***************************************************************************)
EXTENDS Integers, Sequences, FiniteSets, TLC

\* Bounds of the model.
MaxEvents == 2
MaxGuests == 1
MaxRsvps == 2
MaxId == 12
MaxRows == 2

----------------------------------------------------------------------------
\* Python str methods, character by character.

LowerChars == <<"a","b","c","d","e","f","g","h","i","j","k","l","m",
                "n","o","p","q","r","s","t","u","v","w","x","y","z">>
UpperChars == <<"A","B","C","D","E","F","G","H","I","J","K","L","M",
                "N","O","P","Q","R","S","T","U","V","W","X","Y","Z">>
DigitChars == <<"0","1","2","3","4","5","6","7","8","9">>

IndexIn(c, alphabet) ==
  IF \E i \in 1..Len(alphabet) : alphabet[i] = c
  THEN CHOOSE i \in 1..Len(alphabet) : alphabet[i] = c
  ELSE 0

ToLower(c) == IF IndexIn(c, UpperChars) > 0 THEN LowerChars[IndexIn(c, UpperChars)] ELSE c
ToUpper(c) == IF IndexIn(c, LowerChars) > 0 THEN UpperChars[IndexIn(c, LowerChars)] ELSE c

\* str.lower()
Lower(s) == [i \in 1..Len(s) |-> ToLower(s[i])]

\* The text as it came, no letter case changed.
Capitalize_Unchanged(s) == s

\* str.capitalize(): first character upper-cased, every other one lower-cased.
Capitalize(s) == [i \in 1..Len(s) |-> IF i = 1 THEN ToUpper(s[i]) ELSE ToLower(s[i])]

IsSpace(c) == c = " "

RECURSIVE LStrip(_)
LStrip(s) == IF s # <<>> /\ IsSpace(Head(s)) THEN LStrip(Tail(s)) ELSE s

RECURSIVE RStrip(_)
RStrip(s) == IF s # <<>> /\ IsSpace(s[Len(s)]) THEN RStrip(SubSeq(s, 1, Len(s) - 1)) ELSE s

\* str.strip()
Strip(s) == RStrip(LStrip(s))

\* needle in haystack
Contains(haystack, needle) ==
  \E i \in 1..(Len(haystack) - Len(needle) + 1) :
     SubSeq(haystack, i, i + Len(needle) - 1) = needle

IsDigits(s) == s # <<>> /\ \A i \in 1..Len(s) : IndexIn(s[i], DigitChars) > 0

RECURSIVE DigitsValue(_)
DigitsValue(s) ==
  IF s = <<>> THEN 0
  ELSE 10 * DigitsValue(SubSeq(s, 1, Len(s) - 1)) + (IndexIn(s[Len(s)], DigitChars) - 1)

\* The last decimal digit alone.
PyStr_LastDigit(n) == <<DigitChars[(n % 10) + 1]>>

\* str(n) of an int
RECURSIVE PyStr(_)
PyStr(n) ==
  IF n < 0 THEN <<"-">> \o PyStr(0 - n)
  ELSE IF n < 10 THEN <<DigitChars[n + 1]>>
  ELSE PyStr(n \div 10) \o <<DigitChars[(n % 10) + 1]>>

----------------------------------------------------------------------------
\* JSON values of a request body, as far as the handlers tell them apart.

JNone == [t |-> "none", s |-> <<>>]          \* key absent, or null
JStr(cs) == [t |-> "str", s |-> cs]
JList == [t |-> "list", s |-> <<"1">>]       \* a non-empty array
JNum(cs) == [t |-> "num", s |-> cs]          \* a JSON number, by its digits

\* Python truthiness: `not v` is ~Truthy(v).
Truthy(v) ==
  CASE v.t = "none" -> FALSE
    [] v.t = "str"  -> v.s # <<>>
    [] v.t = "num"  -> DigitsValue(v.s) # 0
    [] OTHER        -> TRUE

\* int(v): the value, or the exception int() raises.
PyInt(v) ==
  CASE v.t = "num" -> [exc |-> "", val |-> DigitsValue(v.s)]
    [] v.t = "str" ->
         LET body == Strip(v.s)
             signed == body # <<>> /\ Head(body) \in {"+", "-"}
             digits == IF signed THEN Tail(body) ELSE body
         IN IF IsDigits(digits)
            THEN [exc |-> "",
                  val |-> IF signed /\ Head(body) = "-"
                          THEN 0 - DigitsValue(digits) ELSE DigitsValue(digits)]
            ELSE [exc |-> "ValueError", val |-> 0]
    [] OTHER -> [exc |-> "TypeError", val |-> 0]

----------------------------------------------------------------------------
\* Text constants.  RSVP.response is text the handlers compute.

R_Yes == <<"Y","e","s">>
R_No == <<"N","o">>
R_Maybe == <<"M","a","y","b","e">>
R_NoResponse == <<"N","o"," ","R","e","s","p","o","n","s","e">>
R_CallFailed == <<"C","a","l","l"," ","F","a","i","l","e","d">>

NotCalled == "Not Called"
CalledInitiated == "Called - Initiated"
CalledRsvpReceived == "Called - RSVP Received"
FailedApiError == "Failed - API Error"
FailedVapiStatusUpdate == "Failed - VAPI Status Update"

\* The characters of the transcripts and summaries a simple callback carries.
Chars(text) ==
  CASE text = "yes" -> <<"y","e","s">>
    [] text = "not sure" -> <<"n","o","t"," ","s","u","r","e">>
    [] text = "Sounds great" -> <<"S","o","u","n","d","s"," ","g","r","e","a","t">>
    [] OTHER -> <<>>

\* The default voices of the provider; "" stands for a voice_sample_id of None.
MaleVoiceId == "JBFqnCBsd6RMkjVDRZzb"
FemaleVoiceId == "XrExE9yKIg1WjnnlVkGX"

NoTranscription == "No transcription available from Vapi callback."
VapiCallFailed == "Vapi call failed"

----------------------------------------------------------------------------
VARIABLES
  events,   \* table events: id (the index) -> [status, csv, voice_sample_id]
  guests,   \* table guests: id (the index) -> [event_id, call_status]
  rsvps,    \* table rsvps:  id (the index) -> [guest_id, event_id, response, summary]
  hist,     \* history: per guest, the operations that addressed it so far
  last,     \* the request handled last and its HTTP response
  su,       \* ConcSpec: the status-update handler in flight
  eoc,      \* ConcSpec: the end-of-call-report handler in flight
  cf,       \* ConfirmSpec: the confirm-and-send-invitations handler in flight
  session,  \* WizardSpec: the Flask session of the one browser
  uploads,  \* WizardSpec: the files saved in the upload folder
  call      \* CsvSpec: the function applied last, its argument and its value

vars == <<events, guests, rsvps, hist, last, su, eoc, cf, session, uploads, call>>

----------------------------------------------------------------------------
\* postgres_client.py

\* db.session.get(Guest, guest_id) / db.session.get(Event, event_id)
GuestExists(gs, guest_id) == guest_id \in DOMAIN gs
EventExists(es, event_id) == event_id \in DOMAIN es

\* The guests table after update_guest_call_status(guest_id, status).
update_guest_call_status(gs, guest_id, status) ==
  IF GuestExists(gs, guest_id)
  THEN [gs EXCEPT ![guest_id].call_status = status]
  ELSE gs

\* create_rsvp(guest_id, event_id, rsvp_data): the rsvps table afterwards and
\* whether a row was returned.
create_rsvp(gs, es, rs, guest_id, event_id, rsvp_data) ==
  IF ~GuestExists(gs, guest_id) THEN [rsvps |-> rs, created |-> FALSE]
  ELSE IF ~EventExists(es, event_id) THEN [rsvps |-> rs, created |-> FALSE]
  ELSE [rsvps |-> Append(rs, [guest_id |-> guest_id, event_id |-> event_id,
                              response |-> rsvp_data.response,
                              summary |-> rsvp_data.summary]),
        created |-> TRUE]

\* update_event_status(event_id, status)
update_event_status(es, event_id, status) ==
  IF EventExists(es, event_id) THEN [es EXCEPT ![event_id].status = status] ELSE es

\* update_event_fields(event_id, {'final_invitation_script': ..., 'status': status})
update_event_fields(es, event_id, status) ==
  IF EventExists(es, event_id) THEN [es EXCEPT ![event_id].status = status] ELSE es

\* add_guests_batch(event_id, guests_data): one Guest per parsed row, with the
\* column default call_status 'Not Called'.
add_guests_batch(gs, event_id, n) ==
  gs \o [i \in 1..n |-> [event_id |-> event_id, call_status |-> NotCalled]]

\* get_rsvp_summary_for_event(event_id): the guests of the event are counted,
\* the RSVP rows of the event are grouped by response, and each group whose
\* lower-cased response is yes, no or maybe sets that key of the summary to
\* its count.  The rows hold one spelling of each answer, so no two groups
\* set the same key.
GroupCount(rs, event_id, response) ==
  Cardinality({i \in DOMAIN rs : rs[i].event_id = event_id /\ rs[i].response = response})

get_rsvp_summary_for_event(gs, rs, event_id) ==
  LET total_guests == Cardinality({g \in DOMAIN gs : gs[g].event_id = event_id})
      groups == {rs[i].response : i \in {j \in DOMAIN rs : rs[j].event_id = event_id}}
      counted(key) ==
        LET hit == {r \in groups : Lower(r) = key} IN
        IF hit = {} THEN 0 ELSE GroupCount(rs, event_id, CHOOSE r \in hit : TRUE)
      yes == counted(<<"y","e","s">>)
      no == counted(<<"n","o">>)
      maybe == counted(<<"m","a","y","b","e">>)
      responded_count == yes + no + maybe
  IN IF total_guests = 0
     THEN [yes |-> 0, no |-> 0, maybe |-> 0, pending |-> 0]
     ELSE [yes |-> yes, no |-> no, maybe |-> maybe,
           pending |-> IF total_guests - responded_count < 0 THEN 0
                       ELSE total_guests - responded_count]

----------------------------------------------------------------------------
\* What a handler leaves behind: the tables, the HTTP status code, the
\* call_status writes it made (in order) and whether create_rsvp returned a row.
Result(gs, rs, code, writes, created) ==
  [guests |-> gs, rsvps |-> rs, code |-> code, writes |-> writes, created |-> created]

\* call.get('metadata') and then metadata.get(key)
MetaGet(meta, key) ==
  IF meta.kind = "obj" THEN (IF key = "guestId" THEN meta.guestId ELSE meta.eventId)
  ELSE JNone

----------------------------------------------------------------------------
\* app.py, webhook(), branch 'status-update'

\* The guard without its "Failed - API Error" entry.
StatusUpdateGuard_NoApiErrorCheck(call_status) ==
  call_status \notin {CalledRsvpReceived, "Call Failed"}

\* The guard without its "Called - RSVP Received" entry.
StatusUpdateGuard_NoRsvpCheck(call_status) ==
  call_status \notin {FailedApiError, "Call Failed"}

\* guest.call_status not in ["Called - RSVP Received", "Failed - API Error", "Call Failed"]
StatusUpdateGuard(call_status) ==
  call_status \notin {CalledRsvpReceived, FailedApiError, "Call Failed"}

WebhookStatusUpdate(gs, rs, msg) ==
  IF msg.status # "failed" THEN Result(gs, rs, 200, <<>>, FALSE)
  ELSE IF msg.meta.kind = "null"
  THEN Result(gs, rs, 500, <<>>, FALSE)       \* None.get: AttributeError
  ELSE
    LET guest_id_str == MetaGet(msg.meta, "guestId") IN
    IF ~Truthy(guest_id_str) THEN Result(gs, rs, 200, <<>>, FALSE)
    ELSE
      LET parsed == PyInt(guest_id_str)
          guest_id == parsed.val
      IN CASE parsed.exc = "ValueError" -> Result(gs, rs, 200, <<>>, FALSE)
           [] parsed.exc = "TypeError" -> Result(gs, rs, 500, <<>>, FALSE)
           [] OTHER ->
                IF GuestExists(gs, guest_id) /\ StatusUpdateGuard(gs[guest_id].call_status)
                THEN Result(update_guest_call_status(gs, guest_id, FailedVapiStatusUpdate),
                            rs, 200, <<<<guest_id, FailedVapiStatusUpdate>>>>, FALSE)
                ELSE Result(gs, rs, 200, <<>>, FALSE)

----------------------------------------------------------------------------
\* app.py, webhook(), branch 'end-of-call-report'

\* structured_data.get('rsvp_response', 'No Response'), then the blank check:
\* the value whose capitalize() is persisted.
RsvpResponseFromVapi(rsvp) ==
  LET got == IF rsvp.t = "none" THEN JStr(R_NoResponse) ELSE rsvp IN
  IF ~Truthy(got) \/ (got.t = "str" /\ Strip(got.s) = <<>>)
  THEN JStr(R_NoResponse)
  ELSE got

\* The status written whether or not create_rsvp returned a row.
EocStatusAfterRsvp_Always(gs, guest_id, created) ==
  update_guest_call_status(gs, guest_id, CalledRsvpReceived)

\* if created_rsvp: update_guest_call_status(guest_id, "Called - RSVP Received")
EocStatusAfterRsvp(gs, guest_id, created) ==
  IF created THEN update_guest_call_status(gs, guest_id, CalledRsvpReceived) ELSE gs

WebhookEndOfCallReport(gs, es, rs, msg) ==
  LET guest_id_str == MetaGet(msg.meta, "guestId")
      event_id_str == MetaGet(msg.meta, "eventId")
  IN
  IF ~Truthy(guest_id_str) \/ ~Truthy(event_id_str)
  THEN Result(gs, rs, 400, <<>>, FALSE)
  ELSE
    LET g == PyInt(guest_id_str)
        e == PyInt(event_id_str)
    IN
    \* int(guest_id_str) runs first; only ValueError is caught
    IF g.exc = "ValueError" THEN Result(gs, rs, 400, <<>>, FALSE)
    ELSE IF g.exc = "TypeError" THEN Result(gs, rs, 500, <<>>, FALSE)
    ELSE IF e.exc = "ValueError" THEN Result(gs, rs, 400, <<>>, FALSE)
    ELSE IF e.exc = "TypeError" THEN Result(gs, rs, 500, <<>>, FALSE)
    ELSE IF msg.sd = "null"
    THEN Result(gs, rs, 500, <<>>, FALSE)            \* None.get: AttributeError
    ELSE
      LET rsvp_response_from_vapi ==
            RsvpResponseFromVapi(IF msg.sd = "obj" THEN msg.rsvp ELSE JNone)
      IN
      IF rsvp_response_from_vapi.t # "str"
      THEN Result(gs, rs, 500, <<>>, FALSE)          \* no capitalize(): AttributeError
      ELSE
        LET db_rsvp_data == [response |-> Capitalize(rsvp_response_from_vapi.s),
                             summary |-> msg.text]
            made == create_rsvp(gs, es, rs, g.val, e.val, db_rsvp_data)
            gs2 == EocStatusAfterRsvp(gs, g.val, made.created)
        IN Result(gs2, made.rsvps, 200,
                  IF made.created THEN <<<<g.val, CalledRsvpReceived>>>> ELSE <<>>,
                  made.created)

----------------------------------------------------------------------------
\* app.py, vapi_callback()

\* The keyword classification of a transcription.
ClassifyTranscription(text) ==
  LET processed_response == Lower(Chars(text)) IN
  IF text = "" THEN R_NoResponse
  ELSE IF Contains(processed_response, <<"y","e","s">>) THEN R_Yes
  ELSE IF Contains(processed_response, <<"n","o">>) THEN R_No
  ELSE IF Contains(processed_response, <<"m","a","y","b","e">>)
          \/ Contains(processed_response, <<"n","o","t"," ","s","u","r","e">>) THEN R_Maybe
  ELSE R_NoResponse

\* The failed branch's write, were it to spare "Called - RSVP Received".
CallbackFailedStatus_Guarded(gs, guest_id) ==
  IF GuestExists(gs, guest_id) /\ gs[guest_id].call_status = CalledRsvpReceived
  THEN gs
  ELSE update_guest_call_status(gs, guest_id, FailedApiError)

\* elif call_status == "failed": update_guest_call_status(guest_id, "Failed - API Error")
CallbackFailedStatus(gs, guest_id) ==
  update_guest_call_status(gs, guest_id, FailedApiError)

VapiCallback(gs, es, rs, data) ==
  IF data.meta.kind = "null"
  THEN Result(gs, rs, 500, <<>>, FALSE)              \* None.get: AttributeError
  ELSE
    LET guest_id_str == MetaGet(data.meta, "guestId")
        event_id_str == MetaGet(data.meta, "eventId")
        transcription == data.text
    IN
    IF ~Truthy(guest_id_str) \/ ~Truthy(event_id_str)
    THEN Result(gs, rs, 400, <<>>, FALSE)
    ELSE
      LET g == PyInt(guest_id_str)
          e == PyInt(event_id_str)
          summary_text == IF transcription # "" THEN transcription ELSE NoTranscription
      IN
      IF g.exc = "ValueError" THEN Result(gs, rs, 400, <<>>, FALSE)
      ELSE IF g.exc = "TypeError" THEN Result(gs, rs, 500, <<>>, FALSE)
      ELSE IF e.exc = "ValueError" THEN Result(gs, rs, 400, <<>>, FALSE)
      ELSE IF e.exc = "TypeError" THEN Result(gs, rs, 500, <<>>, FALSE)
      ELSE IF data.status = "success"
      THEN
        LET db_rsvp_data == [response |-> ClassifyTranscription(transcription),
                             summary |-> summary_text]
            made == create_rsvp(gs, es, rs, g.val, e.val, db_rsvp_data)
        IN IF made.created
           THEN Result(update_guest_call_status(gs, g.val, CalledRsvpReceived),
                       made.rsvps, 200, <<<<g.val, CalledRsvpReceived>>>>, TRUE)
           ELSE Result(gs, rs, 200, <<>>, FALSE)
      ELSE IF data.status = "failed"
      THEN
        LET gs2 == CallbackFailedStatus(gs, g.val)
            db_rsvp_data == [response |-> R_CallFailed, summary |-> VapiCallFailed]
            made == create_rsvp(gs2, es, rs, g.val, e.val, db_rsvp_data)
        IN Result(gs2, made.rsvps, 200,
                  IF GuestExists(gs, g.val) THEN <<<<g.val, FailedApiError>>>> ELSE <<>>,
                  made.created)
      ELSE Result(gs, rs, 200, <<>>, FALSE)

----------------------------------------------------------------------------
\* vapi_handler.py, make_outbound_call(): what the provider request comes to.
\*   "call_id"          results[0]['id'] is returned
\*   "no_result"        a 2xx response without results: None
\*   "transport_error"  requests.exceptions.RequestException, caught: None
\*   "parsing_error"    KeyError / JSONDecodeError, caught: None
\*   "exception"        any other exception while the request is built or sent
Outcomes == {"call_id", "no_result", "transport_error", "parsing_error", "exception"}

make_outbound_call(outcome) ==
  [call_id |-> outcome = "call_id", raised |-> outcome = "exception"]

\* The dispatcher, were its except branch to log only.
initiate_vapi_call_NoWriteOnException(gs, guest_id, outcome) ==
  LET r == make_outbound_call(outcome) IN
  IF r.raised
  THEN [guests |-> gs, writes |-> <<>>, raised |-> FALSE]
  ELSE IF r.call_id
  THEN [guests |-> update_guest_call_status(gs, guest_id, CalledInitiated),
        writes |-> <<CalledInitiated>>, raised |-> FALSE]
  ELSE [guests |-> update_guest_call_status(gs, guest_id, FailedApiError),
        writes |-> <<FailedApiError>>, raised |-> FALSE]

\* app.py, initiate_vapi_call(): the guests table afterwards, the call_status
\* writes made, and whether an exception left the function.
initiate_vapi_call(gs, guest_id, outcome) ==
  LET r == make_outbound_call(outcome) IN
  IF r.raised
  THEN \* except Exception: if guest_id: update_guest_call_status(...)
       IF guest_id # 0
       THEN [guests |-> update_guest_call_status(gs, guest_id, FailedApiError),
             writes |-> <<FailedApiError>>, raised |-> FALSE]
       ELSE [guests |-> gs, writes |-> <<>>, raised |-> FALSE]
  ELSE IF r.call_id
  THEN [guests |-> update_guest_call_status(gs, guest_id, CalledInitiated),
        writes |-> <<CalledInitiated>>, raised |-> FALSE]
  ELSE [guests |-> update_guest_call_status(gs, guest_id, FailedApiError),
        writes |-> <<FailedApiError>>, raised |-> FALSE]

\* The "metadata" of the payload make_outbound_call posts:
\* guestId str(guest_id_db), eventId str(event_details.get("eventId")), where
\* confirm_and_send_invitations put "eventId": str(event.id).
CallMetadata(guest_id_db, event_id) ==
  [kind |-> "obj", guestId |-> JStr(PyStr(guest_id_db)), eventId |-> JStr(PyStr(event_id))]

\* for guest_obj in guests_to_call: initiate_vapi_call(...)
\* ids: the guests still to call; outs: their provider outcomes.
RECURSIVE DispatchAll(_, _, _, _)
DispatchAll(gs, event_id, ids, outs) ==
  IF ids = <<>> THEN [guests |-> gs, log |-> <<>>]
  ELSE LET one == initiate_vapi_call(gs, Head(ids), Head(outs))
           rest == DispatchAll(one.guests, event_id, Tail(ids), Tail(outs))
       IN [guests |-> rest.guests,
           log |-> <<[guest_id |-> Head(ids), event_id |-> event_id,
                      outcome |-> Head(outs),
                      metadata |-> CallMetadata(Head(ids), event_id),
                      writes |-> one.writes, raised |-> one.raised]>> \o rest.log]

\* vapi_handler.py, make_bulk_outbound_call(): one request for the whole
\* list.  It writes no call_status, and the metadata of its payload carries
\* the eventId alone (the guest id goes into the customer's display name).
make_bulk_outbound_call(gs, event_id, ids, outcome) ==
  [guests |-> gs,
   metadata |-> [kind |-> "obj", guestId |-> JNone, eventId |-> JStr(PyStr(event_id))],
   returned |-> outcome \in {"call_id", "no_result"}]

----------------------------------------------------------------------------
\* The requests the model delivers.

S1 == <<"1">>
S2 == <<"2">>

\* metadata.guestId / metadata.eventId: absent, the string of a database id,
\* a string that is no number, an array.
IdVals == {JNone, JStr(S1), JStr(S2), JStr(<<"x">>), JList}
NumericIds == {JStr(S1), JStr(S2)}

NoMeta == [kind |-> "absent", guestId |-> JNone, eventId |-> JNone]
NullMeta == [kind |-> "null", guestId |-> JNone, eventId |-> JNone]
ObjMeta(g, e) == [kind |-> "obj", guestId |-> g, eventId |-> e]

\* Metadata absent, null, or with one id of every shape beside a numeric one.
ShapedMetas ==
  {NoMeta, NullMeta}
  \cup {ObjMeta(g, JStr(S1)) : g \in IdVals}
  \cup {ObjMeta(JStr(S1), e) : e \in IdVals}
NumericMetas == {ObjMeta(g, e) : g \in NumericIds, e \in NumericIds}

\* structuredData.rsvp_response
RsvpVals == {JNone, JStr(<<" ">>), JStr(<<"y","e","s">>), JStr(<<"Y","E","S">>),
             JStr(<<"n","O">>), JStr(<<"M","a","y","b","e">>),
             JStr(<<"p","e","r","h","a","p","s">>), JNum(<<"5">>)}

Texts == {"", "Sounds great"}

Request(type, status, meta, sd, rsvp, text) ==
  [type |-> type, status |-> status, meta |-> meta, sd |-> sd, rsvp |-> rsvp, text |-> text]

Yes == JStr(<<"y","e","s">>)

\* Deliveries with numeric correlation ids, an RSVP of yes and either summary.
CoreEndOfCallReports ==
  {Request("end-of-call-report", "ended", m, "obj", Yes, t) :
      m \in NumericMetas, t \in Texts}
  \cup {Request("end-of-call-report", "ended", NoMeta, "obj", Yes, "Sounds great")}

\* Deliveries for guest 1 of event 1 with every shape of analysis.
AnalysisEndOfCallReports ==
  {Request("end-of-call-report", "ended", ObjMeta(JStr(S1), JStr(S1)), "obj", r, t) :
      r \in RsvpVals, t \in Texts}
  \cup {Request("end-of-call-report", "ended", ObjMeta(JStr(S1), JStr(S1)), sd, JNone, "") :
      sd \in {"absent", "null"}}

\* Deliveries with every shape of metadata.
MetadataEndOfCallReports ==
  {Request("end-of-call-report", "ended", m, "obj", Yes, "Sounds great") : m \in ShapedMetas}

CoreStatusUpdates ==
  {Request("status-update", "failed", m, "absent", JNone, "") :
      m \in {NoMeta} \cup {ObjMeta(g, JStr(S1)) : g \in NumericIds}}
  \cup {Request("status-update", "in-progress", ObjMeta(JStr(S1), JStr(S1)), "absent", JNone, "")}

MetadataStatusUpdates ==
  {Request("status-update", "failed", ObjMeta(g, JStr(S1)), "absent", JNone, "") : g \in IdVals}
  \cup {Request("status-update", "failed", NullMeta, "absent", JNone, "")}

OtherMessages ==
  {Request("transcript", "", ObjMeta(JStr(S1), JStr(S1)), "absent", JNone, "")}

CoreCallbacks ==
  {Request("callback", "success", m, "absent", JNone, "yes") : m \in NumericMetas}
  \cup {Request("callback", "failed", m, "absent", JNone, "") : m \in NumericMetas}
  \cup {Request("callback", "ended", ObjMeta(JStr(S1), JStr(S1)), "absent", JNone, "yes")}

\* Callbacks for guest 1 of event 1 with every status and with or without text.
TranscriptCallbacks ==
  {Request("callback", st, ObjMeta(JStr(S1), JStr(e)), "absent", JNone, t) :
      st \in {"success", "ended", "failed"}, e \in {S1, S2}, t \in {"", "yes", "not sure"}}

MetadataCallbacks ==
  {Request("callback", "success", m, "absent", JNone, "yes") : m \in ShapedMetas}
  \cup {Request("callback", "failed", m, "absent", JNone, "") :
          m \in {NullMeta, ObjMeta(JStr(S1), JStr(S1)), ObjMeta(JList, JStr(S1))}}

\* request.form['event_id'] of /confirm-and-send-invitations
FormEventIds == {JNone, JStr(S1), JStr(S2), JStr(<<"x">>)}
ConfirmForms ==
  {[event_id |-> e, final_script |-> TRUE] : e \in FormEventIds}
  \cup {[event_id |-> JStr(S1), final_script |-> FALSE]}

----------------------------------------------------------------------------
\* History.

Overflow == <<"overflow">>
Push(h, tag) ==
  IF h = Overflow \/ Len(h) >= MaxRsvps + 1 THEN Overflow ELSE Append(h, tag)

\* The guest a request names, 0 when its guestId is no id.
Addressed(meta) ==
  LET v == MetaGet(meta, "guestId") IN
  IF Truthy(v) /\ PyInt(v).exc = "" THEN PyInt(v).val ELSE 0

\* The event a request names, 0 when its eventId is no id.
AddressedEvent(meta) ==
  LET v == MetaGet(meta, "eventId") IN
  IF Truthy(v) /\ PyInt(v).exc = "" THEN PyInt(v).val ELSE 0

\* The correlation ids of a request name a guest and an event of the database.
ValidCorrelation(meta) ==
  /\ Addressed(meta) \in DOMAIN guests
  /\ AddressedEvent(meta) \in DOMAIN events

NoRequest == Request("", "", NoMeta, "absent", JNone, "")

\* A request thread of the server: where it is in its handler and its locals.
Thread(pc, req, guest_id, event_id, seen, created) ==
  [pc |-> pc, req |-> req, guest_id |-> guest_id, event_id |-> event_id,
   seen |-> seen, created |-> created]

Idle == Thread("idle", NoRequest, 0, 0, "", FALSE)

\* A session with no key set.  event_details_part1 holds <<>> when the key is
\* absent and <<the dict>> when it is set; the other keys are only ever set
\* to non-empty strings, and "" stands for an absent key.
NoSession == [event_details_part1 |-> <<>>, voice_choice |-> "",
              voice_sample_id |-> "", user_email |-> ""]

\* No function applied yet.
NoCall == [fn |-> "", arg |-> <<>>, val |-> <<>>]

Last(op, req, code, writes, created, dispatch) ==
  [op |-> op, req |-> req, code |-> code, writes |-> writes, created |-> created,
   dispatch |-> dispatch]

Init ==
  /\ events = <<>>
  /\ guests = <<>>
  /\ rsvps = <<>>
  /\ hist = <<>>
  /\ last = Last("start", NoRequest, 0, <<>>, FALSE, <<>>)
  /\ su = Idle
  /\ eoc = Idle
  /\ cf = Idle
  /\ session = NoSession
  /\ uploads = {}
  /\ call = NoCall

----------------------------------------------------------------------------
CsvRowCounts == {0, 1}

\* app.py, event_details_step2(), a valid POST: create_event() with status
\* 'draft'.  csv is the number of rows parse_csv_to_guests() will find in the
\* uploaded guest list (0 when none was uploaded).
CreateEvent ==
  /\ Len(events) < MaxEvents
  /\ \E n \in CsvRowCounts :
        events' = Append(events, [status |-> "draft", csv |-> n,
                                  voice_sample_id |-> MaleVoiceId])
  /\ last' = Last("event_details_step2", NoRequest, 200, <<>>, FALSE, <<>>)
  /\ UNCHANGED <<guests, rsvps, hist, su, eoc, cf, session, uploads, call>>

\* app.py, confirm_and_send_invitations()
ConfirmAndSendInvitations ==
  \E form \in ConfirmForms :
    LET event_id_str == form.event_id
        final_script == form.final_script
        parsed == PyInt(event_id_str)
        req == Request("confirm", "", ObjMeta(JNone, event_id_str), "absent", JNone,
                       IF final_script THEN "script" ELSE "")
    IN
    IF ~Truthy(event_id_str) \/ ~final_script \/ parsed.exc # ""
       \/ ~EventExists(events, parsed.val)
    THEN /\ last' = Last("confirm", req, 302, <<>>, FALSE, <<>>)
         /\ UNCHANGED <<events, guests, rsvps, hist, su, eoc, cf, session, uploads, call>>
    ELSE
      LET event_id == parsed.val
          es1 == [events EXCEPT ![event_id].status = "processing"]
          n == events[event_id].csv
          guests_to_call == [i \in 1..n |-> Len(guests) + i]
          gs1 == add_guests_batch(guests, event_id, n)
      IN
      /\ Len(guests) + n <= MaxGuests
      /\ IF guests_to_call = <<>>
         THEN /\ events' = update_event_status(es1, event_id, "Processed - No Guests")
              /\ last' = Last("confirm", req, 302, <<>>, FALSE, <<>>)
              /\ UNCHANGED <<guests, hist>>
         ELSE \E outs \in [1..n -> Outcomes] :
                LET d == DispatchAll(gs1, event_id, guests_to_call, outs) IN
                /\ guests' = d.guests
                /\ events' = update_event_status(es1, event_id, "Calls Initiated")
                /\ hist' = hist \o [i \in 1..n |->
                              <<IF outs[i] = "call_id" THEN "dispatch_ok"
                                ELSE "dispatch_failed">>]
                /\ last' = Last("confirm", req, 302, <<>>, FALSE, d.log)
      /\ UNCHANGED <<rsvps, su, eoc, cf, session, uploads, call>>

\* A handled delivery: the tables the handler leaves, the history and `last`.
Handled(op, req, res, tag) ==
  /\ Len(res.rsvps) <= MaxRsvps
  /\ guests' = res.guests
  /\ rsvps' = res.rsvps
  /\ hist' = IF tag # "" /\ Addressed(req.meta) \in DOMAIN hist
             THEN [hist EXCEPT ![Addressed(req.meta)] = Push(@, tag)]
             ELSE hist
  /\ last' = Last(op, req, res.code, res.writes, res.created, <<>>)
  /\ UNCHANGED <<events, su, eoc, cf, session, uploads, call>>

\* POST /webhook, message.type == 'status-update'
DeliverStatusUpdate(deliveries) ==
  \E msg \in deliveries :
    LET res == WebhookStatusUpdate(guests, rsvps, msg) IN
    /\ msg.type = "status-update"
    /\ Handled("status-update", msg, res,
               IF msg.status = "failed" THEN "su_failed" ELSE "")

\* POST /webhook, message.type == 'end-of-call-report'
DeliverEndOfCallReport(deliveries) ==
  \E msg \in deliveries :
    LET res == WebhookEndOfCallReport(guests, events, rsvps, msg) IN
    /\ msg.type = "end-of-call-report"
    /\ Handled("end-of-call-report", msg, res,
               IF ValidCorrelation(msg.meta) THEN "eoc" ELSE "")

\* POST /webhook, any other message.type: 200 and nothing else
DeliverOtherMessage ==
  \E msg \in OtherMessages :
    /\ msg.type \notin {"status-update", "end-of-call-report"}
    /\ Handled("other", msg, Result(guests, rsvps, 200, <<>>, FALSE), "")

\* POST /vapi/callback
DeliverCallback(deliveries) ==
  \E data \in deliveries :
    LET res == VapiCallback(guests, events, rsvps, data) IN
    /\ data.type = "callback"
    /\ Handled("callback", data, res,
               IF res.code = 200 /\ data.status \in {"success", "failed"}
               THEN "other" ELSE "")

Next ==
  \/ CreateEvent
  \/ ConfirmAndSendInvitations
  \/ DeliverStatusUpdate(CoreStatusUpdates)
  \/ DeliverEndOfCallReport(CoreEndOfCallReports)
  \/ DeliverOtherMessage
  \/ DeliverCallback(CoreCallbacks)

Spec == Init /\ [][Next]_vars

\* The same program, delivered end-of-call-reports of every analysis shape.
AnalysisNext ==
  \/ CreateEvent
  \/ ConfirmAndSendInvitations
  \/ DeliverStatusUpdate(CoreStatusUpdates)
  \/ DeliverEndOfCallReport(AnalysisEndOfCallReports)

AnalysisSpec == Init /\ [][AnalysisNext]_vars

\* The same program, delivered requests of every metadata shape.
MetadataNext ==
  \/ CreateEvent
  \/ ConfirmAndSendInvitations
  \/ DeliverStatusUpdate(MetadataStatusUpdates)
  \/ DeliverEndOfCallReport(MetadataEndOfCallReports)
  \/ DeliverCallback(MetadataCallbacks)

MetadataSpec == Init /\ [][MetadataNext]_vars

\* The same program, delivered simple callbacks of every status and transcript.
CallbackNext ==
  \/ CreateEvent
  \/ ConfirmAndSendInvitations
  \/ DeliverCallback(TranscriptCallbacks)

CallbackSpec == Init /\ [][CallbackNext]_vars

----------------------------------------------------------------------------
\* confirm_and_send_invitations() commit by commit: update_event_fields
\* commits status 'processing' before the guest list is read and the calls
\* are placed, and the final status is committed after the last call.

\* the form is read and update_event_fields(event_id, ...) commits
Confirm_UpdateEvent ==
  \E form \in ConfirmForms :
    LET event_id_str == form.event_id
        final_script == form.final_script
        parsed == PyInt(event_id_str)
        req == Request("confirm", "", ObjMeta(JNone, event_id_str), "absent", JNone,
                       IF final_script THEN "script" ELSE "")
    IN
    /\ cf.pc = "idle"
    /\ IF ~Truthy(event_id_str) \/ ~final_script \/ parsed.exc # ""
          \/ ~EventExists(events, parsed.val)
       THEN /\ last' = Last("confirm", req, 302, <<>>, FALSE, <<>>)
            /\ UNCHANGED <<events, cf>>
       ELSE /\ Len(guests) + events[parsed.val].csv <= MaxGuests
            /\ events' = update_event_fields(events, parsed.val, "processing")
            /\ cf' = Thread("guests", req, 0, parsed.val, "", FALSE)
            /\ UNCHANGED last
    /\ UNCHANGED <<guests, rsvps, hist, su, eoc, session, uploads, call>>

\* the guest list is parsed and stored, every guest is called and the final
\* status is committed
Confirm_CallGuests ==
  /\ cf.pc = "guests"
  /\ LET event_id == cf.event_id
         n == events[event_id].csv
         guests_to_call == [i \in 1..n |-> Len(guests) + i]
         gs1 == add_guests_batch(guests, event_id, n)
     IN IF guests_to_call = <<>>
        THEN /\ events' = update_event_status(events, event_id, "Processed - No Guests")
             /\ last' = Last("confirm", cf.req, 302, <<>>, FALSE, <<>>)
             /\ UNCHANGED <<guests, hist>>
        ELSE \E outs \in [1..n -> Outcomes] :
               LET d == DispatchAll(gs1, event_id, guests_to_call, outs) IN
               /\ guests' = d.guests
               /\ events' = update_event_status(events, event_id, "Calls Initiated")
               /\ hist' = hist \o [i \in 1..n |->
                             <<IF outs[i] = "call_id" THEN "dispatch_ok"
                               ELSE "dispatch_failed">>]
               /\ last' = Last("confirm", cf.req, 302, <<>>, FALSE, d.log)
  /\ cf' = Idle
  /\ UNCHANGED <<rsvps, su, eoc, session, uploads, call>>

ConfirmNext ==
  \/ CreateEvent
  \/ Confirm_UpdateEvent
  \/ Confirm_CallGuests

ConfirmSpec == Init /\ [][ConfirmNext]_vars

----------------------------------------------------------------------------
\* csv_parser.py, parse_csv_to_guests().  A file is its header (fieldnames)
\* and its rows, a row the cells it has: a row shorter than the header leaves
\* None under the missing fieldnames.

\* str.replace(' ', '')
RECURSIVE RemoveSpaces(_)
RemoveSpaces(s) ==
  IF s = <<>> THEN <<>>
  ELSE IF Head(s) = " " THEN RemoveSpaces(Tail(s))
  ELSE <<Head(s)>> \o RemoveSpaces(Tail(s))

name_keys == {<<"g","u","e","s","t","n","a","m","e">>, <<"n","a","m","e">>,
              <<"f","u","l","l"," ","n","a","m","e">>,
              <<"g","u","e","s","t"," ","n","a","m","e">>}
phone_keys == {<<"p","h","o","n","e","n","u","m","b","e","r">>, <<"p","h","o","n","e">>,
               <<"c","o","n","t","a","c","t"," ","n","u","m","b","e","r">>,
               <<"m","o","b","i","l","e"," ","n","u","m","b","e","r">>}

\* field.lower().strip().replace(' ', '')
NormalisedField(field) == RemoveSpaces(Strip(Lower(field)))

\* for field in fieldnames: the column found last under the name keys, and
\* the column found last under the phone keys among those that are no name
\* column; 0 when there is none.
RECURSIVE LastColumn(_, _, _)
LastColumn(fieldnames, i, isName) ==
  IF i = 0 THEN 0
  ELSE LET f == NormalisedField(fieldnames[i])
           hit == IF isName THEN f \in name_keys
                  ELSE f \notin name_keys /\ f \in phone_keys
       IN IF hit THEN i ELSE LastColumn(fieldnames, i - 1, isName)

\* for row in reader: the guests appended so far, or the exception raised by
\* .strip() on the None of a short row.
RECURSIVE ReadRows(_, _, _)
ReadRows(rows, name_col, phone_col) ==
  IF rows = <<>> THEN [raised |-> FALSE, guests |-> <<>>]
  ELSE
    LET row == Head(rows) IN
    IF name_col > Len(row) \/ phone_col > Len(row)
    THEN [raised |-> TRUE, guests |-> <<>>]
    ELSE
      LET guest_name == Strip(row[name_col])
          phone_number == Strip(row[phone_col])
          rest == ReadRows(Tail(rows), name_col, phone_col)
      IN IF rest.raised THEN rest
         ELSE IF guest_name # <<>> /\ phone_number # <<>>
         THEN [raised |-> FALSE,
               guests |-> <<[GuestName |-> guest_name, PhoneNumber |-> phone_number]>>
                          \o rest.guests]
         ELSE rest

parse_csv_to_guests(file) ==
  IF ~file.found THEN <<>>                       \* FileNotFoundError
  ELSE IF file.fieldnames = <<>> THEN <<>>
  ELSE
    LET name_col == LastColumn(file.fieldnames, Len(file.fieldnames), TRUE)
        phone_col == LastColumn(file.fieldnames, Len(file.fieldnames), FALSE)
    IN IF name_col = 0 \/ phone_col = 0 THEN <<>>
       ELSE LET read == ReadRows(file.rows, name_col, phone_col)
            IN IF read.raised THEN <<>> ELSE read.guests   \* except Exception

\* app-backup.py, event_details_step2(), manual entry:
\* phone.startswith('+') and phone[1:].isdigit()
ManualPhoneAccepted(phone) ==
  /\ phone # <<>>
  /\ Head(phone) = "+"
  /\ IsDigits(Tail(phone))

\* The inputs.
Phones == {<<>>, <<"+","1","5">>, <<"1","5">>, <<"+">>, <<"+","1","a">>,
           <<" ","+","1"," ">>}
CsvRows == {<<n, p>> : n \in {<<>>, <<"A","l">>}, p \in Phones} \cup {<<n>> : n \in {<<>>, <<"A","l">>}}
\* The files: a missing one, one under every pair of listed header names as
\* a guest list spells them, and files of up to MaxRows rows.
CsvFiles ==
  {[found |-> FALSE, fieldnames |-> <<>>, rows |-> <<>>]}
  \cup {[found |-> TRUE, fieldnames |-> <<n, p>>,
          rows |-> <<<<<<"A","l">>, <<"+","1","5">>>>>>] :
          n \in {<<"G","u","e","s","t","N","a","m","e">>, <<"N","a","m","e">>, <<"F","u","l","l"," ","N","a","m","e">>, <<"G","u","e","s","t"," ","N","a","m","e">>}, p \in {<<"P","h","o","n","e","N","u","m","b","e","r">>, <<"P","h","o","n","e">>, <<"C","o","n","t","a","c","t"," ","N","u","m","b","e","r">>, <<"M","o","b","i","l","e"," ","N","u","m","b","e","r">>}}
  \cup {[found |-> TRUE, fieldnames |-> h, rows |-> r] :
          h \in {<<<<"N","a","m","e">>, <<"P","h","o","n","e">>>>, <<<<"G","u","e","s","t","N","a","m","e">>, <<" ","P","h","o","n","e"," ">>>>, <<<<"P","e","r","s","o","n">>, <<"P","h","o","n","e">>>>}, r \in UNION {[1..k -> CsvRows] : k \in 0..MaxRows}}

\* parse_csv_to_guests(event.guest_list_csv_path)
ParseCsvToGuests ==
  \E file \in CsvFiles :
    /\ call' = [fn |-> "parse_csv_to_guests", arg |-> file, val |-> parse_csv_to_guests(file)]
    /\ UNCHANGED <<events, guests, rsvps, hist, last, su, eoc, cf, session, uploads>>

\* the manual-entry check of one phone number
CheckManualPhone ==
  \E phone \in Phones :
    /\ call' = [fn |-> "manual_phone", arg |-> phone, val |-> ManualPhoneAccepted(phone)]
    /\ UNCHANGED <<events, guests, rsvps, hist, last, su, eoc, cf, session, uploads>>

CsvNext ==
  \/ ParseCsvToGuests
  \/ CheckManualPhone

CsvSpec == Init /\ [][CsvNext]_vars

----------------------------------------------------------------------------
\* app.py, the event-creation wizard: index(), voice_selection(),
\* voice_training() and event_details_step2() over the session, the upload
\* folder and the events table.

\* str.split(sep) for a one-character separator
RECURSIVE SplitOn(_, _)
SplitOn(s, sep) ==
  IF \A i \in 1..Len(s) : s[i] # sep THEN <<s>>
  ELSE LET i == CHOOSE k \in 1..Len(s) :
                  s[k] = sep /\ \A j \in 1..(k - 1) : s[j] # sep
       IN <<SubSeq(s, 1, i - 1)>> \o SplitOn(SubSeq(s, i + 1, Len(s)), sep)

IsLeapYear(y) == y % 4 = 0 /\ (y % 100 # 0 \/ y % 400 = 0)

DaysInMonth(y, m) ==
  IF m = 2 THEN (IF IsLeapYear(y) THEN 29 ELSE 28)
  ELSE IF m \in {4, 6, 9, 11} THEN 30 ELSE 31

\* A field of one or two digits whose value lies in lo..hi, as the
\* directives %m, %d, %H and %M match it.
TwoDigitField(f, lo, hi) ==
  /\ IsDigits(f)
  /\ Len(f) <= 2
  /\ DigitsValue(f) >= lo
  /\ DigitsValue(f) <= hi

\* datetime.strptime(s, '%Y-%m-%d').date() raises no ValueError
ValidDate(s) ==
  LET parts == SplitOn(s, "-") IN
  /\ Len(parts) = 3
  /\ IsDigits(parts[1]) /\ Len(parts[1]) = 4 /\ DigitsValue(parts[1]) >= 1
  /\ TwoDigitField(parts[2], 1, 12)
  /\ TwoDigitField(parts[3], 1, 31)
  /\ DigitsValue(parts[3]) <= DaysInMonth(DigitsValue(parts[1]), DigitsValue(parts[2]))

\* datetime.strptime(s, '%H:%M').time() raises no ValueError
ValidTime(s) ==
  LET parts == SplitOn(s, ":") IN
  /\ Len(parts) = 2
  /\ TwoDigitField(parts[1], 0, 23)
  /\ TwoDigitField(parts[2], 0, 59)

\* allowed_file(filename, allowed_extensions_set)
allowed_file(filename, allowed_extensions_set) ==
  /\ \E i \in 1..Len(filename) : filename[i] = "."
  /\ LET parts == SplitOn(filename, ".")
     IN Lower(parts[Len(parts)]) \in allowed_extensions_set

ALLOWED_EXTENSIONS_VOICE == {<<"w","a","v">>, <<"m","p","3">>, <<"m","p","4">>, <<"m","4","a">>, <<"w","e","b","m">>}
ALLOWED_EXTENSIONS == {<<"c","s","v">>}

\* The form fields.  A missing field and an empty one are both falsy and are
\* both drawn as the empty string.  File names are ones that
\* secure_filename() leaves as they are.
IndexForms ==
  {[method |-> "GET", host_name |-> "", event_type |-> "", event_date |-> <<>>,
    event_time |-> <<>>, duration |-> ""]}
  \cup [method : {"POST"}, host_name : {"", "Asha"}, event_type : {"Wedding"},
        event_date : {<<>>, <<"2","0","2","5","-","0","6","-","2","0">>, <<"2","0","2","5","-","0","2","-","3","0">>}, event_time : {<<>>, <<"1","8",":","3","0">>, <<"6","p","m">>}, duration : {"2 hours"}]
VoiceForms ==
  {[method |-> "GET", voice_choice |-> ""]}
  \cup [method : {"POST"}, voice_choice : {"", "male", "custom"}]
TrainingForms ==
  {[method |-> "GET", audio |-> <<>>, audio_blob |-> <<>>, api_key |-> TRUE,
    voice_id |-> ""]}
  \cup [method : {"POST"}, audio : {<<>>, <<"v",".","w","a","v">>, <<"g",".","t","x","t">>}, audio_blob : {<<>>, <<"b","l","o","b">>},
        api_key : BOOLEAN, voice_id : {"", "voice-1"}]
Step2Forms ==
  {[method |-> "GET", contact |-> [location |-> "", email |-> ""],
    rsvp_deadline |-> <<>>,
    guests |-> [guest_input_method |-> "manual", guest_list |-> <<>>],
    rows |-> 0, created |-> TRUE]}
  \cup [method : {"POST"}, contact : {[location |-> "Hall", email |-> "a@x.org"], [location |-> "", email |-> "a@x.org"], [location |-> "Hall", email |-> ""]},
        rsvp_deadline : {<<>>, <<"2","0","2","5","-","0","6","-","2","0">>, <<"2","0","/","0","6","/","2","0","2","5">>}, guests : {[guest_input_method |-> "manual", guest_list |-> <<>>]} \cup [guest_input_method : {"csv"}, guest_list : {<<"g",".","c","s","v">>, <<"g",".","t","x","t">>}], rows : {1},
        created : BOOLEAN]

\* What a handler answers: the status code, the message flashed and where
\* the redirect leads or which template is rendered.
Response(code, flash, to) == [code |-> code, flash |-> flash, to |-> to]

\* The call kept of a request: the handler, the method and the answer.
Handle(fn, form, response) == [fn |-> fn, arg |-> form.method, val |-> response]

\* A file in the upload folder: host_name is the prefix of a voice sample.
Upload(host_name, filename) == [host_name |-> host_name, filename |-> filename]

\* app.py, index()
Index ==
  \E form \in IndexForms :
    /\ form.method \in {"GET", "POST"}
    /\ IF form.method = "GET"
       THEN /\ call' = Handle("index", form, Response(200, "", "index.html"))
            /\ UNCHANGED session
       ELSE IF form.host_name = "" \/ form.event_type = "" \/ form.event_date = <<>>
               \/ form.event_time = <<>> \/ form.duration = ""
       THEN /\ call' = Handle("index", form,
                              Response(302, "Please fill in all required fields.", "index"))
            /\ UNCHANGED session
       ELSE /\ session' = [session EXCEPT !.event_details_part1 =
                             <<[host_name |-> form.host_name,
                                event_type |-> form.event_type,
                                event_date |-> form.event_date,
                                event_time |-> form.event_time,
                                duration |-> form.duration]>>]
            /\ call' = Handle("index", form, Response(302, "", "voice_selection"))
    /\ UNCHANGED <<events, guests, rsvps, hist, last, su, eoc, cf, uploads>>

\* app.py, voice_selection()
VoiceSelection ==
  \E form \in VoiceForms :
    /\ form.method \in {"GET", "POST"}
    /\ IF session.event_details_part1 = <<>>
       THEN /\ call' = Handle("voice_selection", form,
                              Response(302, "Please complete event details first.", "index"))
            /\ UNCHANGED session
       ELSE IF form.method = "GET"
       THEN /\ call' = Handle("voice_selection", form,
                              Response(200, "", "voice_selection.html"))
            /\ UNCHANGED session
       ELSE IF form.voice_choice = ""
       THEN /\ call' = Handle("voice_selection", form,
                              Response(302, "Please select a voice option.", "voice_selection"))
            /\ UNCHANGED session
       ELSE /\ session' = [session EXCEPT !.voice_choice = form.voice_choice]
            /\ call' = Handle("voice_selection", form,
                              Response(302, "",
                                       IF form.voice_choice = "custom" THEN "voice_training"
                                       ELSE "event_details_step2"))
    /\ UNCHANGED <<events, guests, rsvps, hist, last, su, eoc, cf, uploads>>

\* app.py, voice_training(): api_key says whether config.LMNT_API_KEY is set,
\* voice_id is what create_custom_voice() returns ("" for None).
VoiceTraining ==
  \E form \in TrainingForms :
    LET has_upload == form.audio # <<>>
        has_recording == form.audio_blob # <<>>
        host_name == IF session.event_details_part1 = <<>> THEN "CustomVoice"
                     ELSE session.event_details_part1[1].host_name
        answer(flash, to) == Handle("voice_training", form, Response(302, flash, to))
    IN
    /\ form.method \in {"GET", "POST"}
    /\ IF session.event_details_part1 = <<>> \/ session.voice_choice # "custom"
       THEN /\ call' = answer("Please complete previous steps first.", "voice_selection")
            /\ UNCHANGED <<session, uploads>>
       ELSE IF form.method = "GET"
       THEN /\ call' = Handle("voice_training", form, Response(200, "", "voice_training.html"))
            /\ UNCHANGED <<session, uploads>>
       ELSE IF ~(has_upload \/ has_recording)
       THEN /\ call' = answer("Please either upload an audio file or record your voice.",
                              "voice_training")
            /\ UNCHANGED <<session, uploads>>
       ELSE IF has_upload /\ has_recording
       THEN /\ call' = answer("Please choose only one option: upload an audio file or record your voice.",
                              "voice_training")
            /\ UNCHANGED <<session, uploads>>
       ELSE IF has_upload /\ ~allowed_file(form.audio, ALLOWED_EXTENSIONS_VOICE)
       THEN /\ call' = answer("Invalid audio file type.", "voice_training")
            /\ UNCHANGED <<session, uploads>>
       ELSE
         /\ uploads' = uploads \cup
               {Upload(host_name, IF has_upload THEN form.audio ELSE <<"r","e","c","o","r","d","i","n","g",".","w","a","v">>)}
         /\ IF ~form.api_key
            THEN /\ call' = answer("LMNT API key not set. Please configure it in .env.",
                                   "voice_training")
                 /\ UNCHANGED session
            ELSE IF form.voice_id # ""
            THEN /\ session' = [session EXCEPT !.voice_sample_id = form.voice_id]
                 /\ call' = answer("Custom voice created successfully!", "event_details_step2")
            ELSE /\ call' = answer("Failed to create custom voice.", "voice_training")
                 /\ UNCHANGED session
    /\ UNCHANGED <<events, guests, rsvps, hist, last, su, eoc, cf>>

\* app.py, event_details_step2(): rows is the number of rows
\* parse_csv_to_guests() will find in the saved guest list, created says
\* whether create_event() returns the new event.
EventDetailsStep2 ==
  \E form \in Step2Forms :
    LET answer(flash, to) == Handle("event_details_step2", form, Response(302, flash, to))
        saved == /\ form.guests.guest_input_method = "csv"
                 /\ form.guests.guest_list # <<>>
                 /\ allowed_file(form.guests.guest_list, ALLOWED_EXTENSIONS)
    IN
    /\ form.method \in {"GET", "POST"}
    /\ IF session.event_details_part1 = <<>> \/ session.voice_choice = ""
       THEN /\ call' = answer("Please complete previous steps first.", "index")
            /\ UNCHANGED <<session, uploads, events>>
       ELSE IF form.method = "GET"
       THEN /\ call' = Handle("event_details_step2", form,
                              Response(200, "", "event_details_step2.html"))
            /\ UNCHANGED <<session, uploads, events>>
       ELSE IF form.contact.location = "" \/ form.contact.email = "" \/ form.rsvp_deadline = <<>>
       THEN /\ call' = answer("Please fill in all required fields for this step.",
                              "event_details_step2")
            /\ UNCHANGED <<session, uploads, events>>
       ELSE
         LET with_email == [session EXCEPT !.user_email = form.contact.email]
             event_details_part1 == session.event_details_part1[1]
             voice_choice == session.voice_choice
             \* session.get('voice_sample_id') is None when the key is absent
             voice_sample_id == IF voice_choice = "custom" THEN session.voice_sample_id
                                ELSE IF voice_choice = "male" THEN MaleVoiceId
                                ELSE FemaleVoiceId
         IN
         IF ~(/\ ValidDate(event_details_part1.event_date)
              /\ ValidTime(event_details_part1.event_time)
              /\ ValidDate(form.rsvp_deadline))
         THEN /\ session' = with_email
              /\ call' = answer("Invalid date or time format. Please use YYYY-MM-DD for dates and HH:MM for time.",
                                "event_details_step2")
              /\ UNCHANGED <<uploads, events>>
         ELSE
           /\ uploads' = IF saved THEN uploads \cup {Upload("", form.guests.guest_list)} ELSE uploads
           /\ IF ~form.created \/ Len(events) >= MaxEvents   \* create_event() is None
              THEN /\ session' = with_email
                   /\ call' = answer("Failed to create event draft in database.",
                                     "event_details_step2")
                   /\ UNCHANGED events
              ELSE /\ events' = Append(events, [status |-> "draft",
                                                csv |-> IF saved THEN form.rows ELSE 0,
                                                voice_sample_id |-> voice_sample_id])
                   /\ session' = [with_email EXCEPT !.event_details_part1 = <<>>]
                   /\ call' = Handle("event_details_step2", form,
                                     Response(200, "", "preview_script.html"))
    /\ UNCHANGED <<guests, rsvps, hist, last, su, eoc, cf>>

WizardNext ==
  \/ Index
  \/ VoiceSelection
  \/ VoiceTraining
  \/ EventDetailsStep2

WizardSpec == Init /\ [][WizardNext]_vars

----------------------------------------------------------------------------
\* app.py, _generate_event_script().  A text is a sequence of tokens, a
\* token a string of characters: a word, a field value, or a placeholder
\* such as [HostName].  The field values drawn are single tokens, so that
\* str.replace(placeholder, value) exchanges whole tokens.

\* str.find(needle): the 0-based index of the first occurrence, or -1
Find(haystack, needle) ==
  LET hits == {i \in 1..(Len(haystack) - Len(needle) + 1) :
                 SubSeq(haystack, i, i + Len(needle) - 1) = needle}
  IN IF hits = {} THEN -1 ELSE (CHOOSE i \in hits : \A j \in hits : i <= j) - 1

\* str.lstrip(chars)
RECURSIVE LStripChars(_, _)
LStripChars(s, chars) ==
  IF s # <<>> /\ Head(s) \in chars THEN LStripChars(Tail(s), chars) ELSE s

\* derived_dress_code: "not specified", or the text after "dress code",
\* .lstrip(": is.").strip(), up to the first '.' and then the first ';'.
derived_dress_code(special_instructions) ==
  IF special_instructions = <<>> THEN <<"n","o","t"," ","s","p","e","c","i","f","i","e","d">>
  ELSE
    LET si_lower == Lower(special_instructions)
        dress_code_marker == <<"d","r","e","s","s"," ","c","o","d","e">>
    IN IF ~Contains(si_lower, dress_code_marker) THEN <<"n","o","t"," ","s","p","e","c","i","f","i","e","d">>
       ELSE
         LET start_index == Find(si_lower, dress_code_marker) + Len(dress_code_marker)
             substring_after_marker ==
               Strip(LStripChars(SubSeq(special_instructions, start_index + 1,
                                        Len(special_instructions)),
                                 {":", " ", "i", "s", "."}))
             potential_dress_code ==
               Strip(SplitOn(SplitOn(substring_after_marker, ".")[1], ";")[1])
         IN IF potential_dress_code # <<>> THEN potential_dress_code
            ELSE <<"n","o","t"," ","s","p","e","c","i","f","i","e","d">>

\* date.weekday() by Sakamoto's rule: 1 is Sunday ... 7 is Saturday
DayOfWeek(date) ==
  LET y == IF date[2] < 3 THEN date[1] - 1 ELSE date[1]
  IN ((y + (y \div 4) - (y \div 100) + (y \div 400) + <<0, 3, 2, 5, 0, 3, 5, 1, 4, 6, 2, 4>>[date[2]] + date[3]) % 7) + 1

DayNames == <<<<"S","u","n","d","a","y">>,
              <<"M","o","n","d","a","y">>,
              <<"T","u","e","s","d","a","y">>,
              <<"W","e","d","n","e","s","d","a","y">>,
              <<"T","h","u","r","s","d","a","y">>,
              <<"F","r","i","d","a","y">>,
              <<"S","a","t","u","r","d","a","y">>>>
MonthNames == <<<<"J","a","n","u","a","r","y">>,
                <<"F","e","b","r","u","a","r","y">>,
                <<"M","a","r","c","h">>,
                <<"A","p","r","i","l">>,
                <<"M","a","y">>,
                <<"J","u","n","e">>,
                <<"J","u","l","y">>,
                <<"A","u","g","u","s","t">>,
                <<"S","e","p","t","e","m","b","e","r">>,
                <<"O","c","t","o","b","e","r">>,
                <<"N","o","v","e","m","b","e","r">>,
                <<"D","e","c","e","m","b","e","r">>>>

\* a number in two digits, as %d, %I and %M print it
Pad2(n) == IF n < 10 THEN <<"0">> \o PyStr(n) ELSE PyStr(n)

\* date.strftime('%A, %B %d, %Y')
FormatDate(date) ==
  DayNames[DayOfWeek(date)] \o <<","," ">> \o MonthNames[date[2]] \o <<" ">> \o Pad2(date[3])
  \o <<","," ">> \o PyStr(date[1])

\* time.strftime('%I:%M %p').lstrip("0")
FormatTime(time) ==
  LET hour12 == IF time[1] % 12 = 0 THEN 12 ELSE time[1] % 12
  IN LStripChars(Pad2(hour12) \o <<":">> \o Pad2(time[2]) \o <<" ">>
                 \o (IF time[1] < 12 THEN <<"A","M">> ELSE <<"P","M">>), {"0"})

\* the time of day of datetime.combine(date, time) - timedelta(minutes=15)
ArrivalTime(time) ==
  LET minutes == (time[1] * 60 + time[2] + 1440 - 15) % 1440
  IN <<minutes \div 60, minutes % 60>>

\* date + timedelta(days=1)
NextDay(date) ==
  IF date[3] < DaysInMonth(date[1], date[2]) THEN <<date[1], date[2], date[3] + 1>>
  ELSE IF date[2] < 12 THEN <<date[1], date[2] + 1, 1>>
  ELSE <<date[1] + 1, 1, 1>>

GuestNameToken == <<"{","{","G","u","e","s","t","N","a","m","e","}","}">>
ErrorSentinel == <<<<"E","r","r","o","r",":"," ","C","o","u","l","d"," ","n","o","t"," ","l","o","a","d"," ","s","c","r","i","p","t"," ","t","e","m","p","l","a","t","e",".">>>>

\* The prompt template: words and each bracketed placeholder once.
PromptTemplate ==
  <<<<"f","o","r">>, <<"[","H","o","s","t","N","a","m","e","]">>,
    <<"c","a","l","l","s">>, <<"[","G","u","e","s","t","N","a","m","e","]">>,
    <<"t","o">>, <<"[","E","v","e","n","t","T","y","p","e","]">>,
    <<"o","n">>, <<"[","E","v","e","n","t","D","a","t","e","]">>,
    <<"a","t">>, <<"[","E","v","e","n","t","T","i","m","e","]">>,
    <<"i","n">>, <<"[","L","o","c","a","t","i","o","n","]">>,
    <<"n","o","t","e">>, <<"[","C","u","l","t","u","r","a","l","P","r","e","f","e","r","e","n","c","e","s","]">>,
    <<"a","n","d">>, <<"[","S","p","e","c","i","a","l","I","n","s","t","r","u","c","t","i","o","n","s","]">>,
    <<"l","a","s","t","i","n","g">>, <<"[","D","u","r","a","t","i","o","n","]">>,
    <<"r","e","p","l","y"," ","b","y">>, <<"[","R","S","V","P","D","e","a","d","l","i","n","e","]">>,
    <<"a","r","r","i","v","e"," ","b","y">>, <<"[","A","r","r","i","v","a","l","T","i","m","e","]">>,
    <<"w","e","a","r">>, <<"[","D","r","e","s","s","C","o","d","e","]">>,
    <<"o","r"," ","o","n">>, <<"[","A","l","t","e","r","n","a","t","e","D","a","t","e","]">>,
    <<"a","t">>, <<"[","A","l","t","e","r","n","a","t","e","T","i","m","e","]">>>>

\* prompt.replace(placeholder, str(value))
ReplaceToken(text, placeholder, value) ==
  [i \in DOMAIN text |-> IF text[i] = placeholder THEN value ELSE text[i]]

\* for placeholder, value in variable_values.items(): in the dict's order
RECURSIVE ReplaceAll(_, _)
ReplaceAll(text, variable_values) ==
  IF variable_values = <<>> THEN text
  ELSE ReplaceAll(ReplaceToken(text, Head(variable_values)[1], Head(variable_values)[2]),
                  Tail(variable_values))

\* value or default
Or(value, default) == IF value # <<>> THEN value ELSE default

\* The placeholders with their values, in the order of the dict.  A date or
\* time of None is <<>>, and so is a text of None or "".
VariableValues(event, guest_name_placeholder) ==
  LET event_date_formatted ==
        IF event.event_date # <<>> THEN FormatDate(event.event_date) ELSE <<"a"," ","f","u","t","u","r","e"," ","d","a","t","e">>
      event_time_formatted ==
        IF event.event_time # <<>> THEN FormatTime(event.event_time) ELSE <<"a"," ","s","u","i","t","a","b","l","e"," ","t","i","m","e">>
      rsvp_deadline_formatted ==
        IF event.rsvp_deadline # <<>> THEN FormatDate(event.rsvp_deadline) ELSE <<"s","o","o","n">>
      formatted_arrival_time ==
        IF event.event_date # <<>> /\ event.event_time # <<>>
        THEN FormatTime(ArrivalTime(event.event_time))
        ELSE <<"1","5"," ","m","i","n","u","t","e","s"," ","b","e","f","o","r","e"," ","t","h","e"," ","e","v","e","n","t"," ","(","s","p","e","c","i","f","i","c"," ","t","i","m","e"," ","n","o","t"," ","s","e","t",")">>
      formatted_alternate_date ==
        IF event.event_date # <<>> THEN FormatDate(NextDay(event.event_date))
        ELSE <<"t","h","e"," ","n","e","x","t"," ","d","a","y">>
  IN <<<<<<"[","H","o","s","t","N","a","m","e","]">>, Or(event.host_name, <<"t","h","e"," ","h","o","s","t">>)>>,
       <<<<"[","G","u","e","s","t","N","a","m","e","]">>, guest_name_placeholder>>,
       <<<<"[","E","v","e","n","t","T","y","p","e","]">>, Or(event.event_type, <<"a","n"," ","e","v","e","n","t">>)>>,
       <<<<"[","E","v","e","n","t","D","a","t","e","]">>, event_date_formatted>>,
       <<<<"[","E","v","e","n","t","T","i","m","e","]">>, event_time_formatted>>,
       <<<<"[","L","o","c","a","t","i","o","n","]">>, Or(event.location, <<"a"," ","l","o","c","a","t","i","o","n">>)>>,
       <<<<"[","C","u","l","t","u","r","a","l","P","r","e","f","e","r","e","n","c","e","s","]">>, event.cultural_preferences>>,
       <<<<"[","S","p","e","c","i","a","l","I","n","s","t","r","u","c","t","i","o","n","s","]">>, event.special_instructions>>,
       <<<<"[","D","u","r","a","t","i","o","n","]">>, Or(event.duration, <<"a"," ","f","e","w"," ","h","o","u","r","s">>)>>,
       <<<<"[","R","S","V","P","D","e","a","d","l","i","n","e","]">>, rsvp_deadline_formatted>>,
       <<<<"[","A","r","r","i","v","a","l","T","i","m","e","]">>, formatted_arrival_time>>,
       <<<<"[","D","r","e","s","s","C","o","d","e","]">>, derived_dress_code(event.special_instructions)>>,
       <<<<"[","A","l","t","e","r","n","a","t","e","D","a","t","e","]">>, formatted_alternate_date>>,
       <<<<"[","A","l","t","e","r","n","a","t","e","T","i","m","e","]">>, event_time_formatted>>>>

\* _generate_event_script(event): template is "readable", "missing"
\* (FileNotFoundError, caught) or "unreadable" (any other OSError, not caught).
generate_event_script(event, template) ==
  IF template = "missing" THEN [raised |-> FALSE, script |-> ErrorSentinel]
  ELSE IF template = "unreadable" THEN [raised |-> TRUE, script |-> <<>>]
  ELSE [raised |-> FALSE,
        script |-> ReplaceAll(PromptTemplate, VariableValues(event, GuestNameToken))]

\* The events a script is generated for.
ScriptEvents ==
  [host_name : {<<>>, <<"A","s","h","a">>, <<"[","L","o","c","a","t","i","o","n","]">>, <<"{","{","G","u","e","s","t","N","a","m","e","}","}">>}, event_type : {<<"W","e","d","d","i","n","g">>}, event_date : {<<>>, <<2025, 6, 20>>, <<2024, 2, 28>>, <<2025, 12, 31>>},
   event_time : {<<>>, <<18, 30>>, <<0, 5>>}, location : {<<"H","a","l","l">>, <<"[","H","o","s","t","N","a","m","e","]">>}, cultural_preferences : {<<>>},
   special_instructions : {<<>>, <<"B","e"," ","e","a","r","l","y">>, <<"D","r","e","s","s"," ","c","o","d","e",":"," ","f","o","r","m","a","l","."," ","N","o"," ","g","i","f","t","s">>, <<"D","r","e","s","s"," ","c","o","d","e"," ","i","s"," ","s","m","a","r","t"," ","c","a","s","u","a","l",";"," ","b","e"," ","e","a","r","l","y">>, <<"d","r","e","s","s"," ","c","o","d","e",":"," ","i","v","o","r","y">>}, duration : {<<"2"," ","h","o","u","r","s">>},
   rsvp_deadline : {<<>>, <<2025, 6, 1>>}]

\* One run: a script is generated, offered in the preview, confirmed and
\* used for the call of a guest.

\* sample_script = _generate_event_script(event_object_from_db)
GenerateEventScript ==
  /\ call.fn = ""
  /\ \E event \in ScriptEvents, template \in {"readable", "missing", "unreadable"} :
       call' = [fn |-> "_generate_event_script",
                arg |-> [event |-> event, template |-> template],
                val |-> generate_event_script(event, template)]
  /\ UNCHANGED <<events, guests, rsvps, hist, last, su, eoc, cf, session, uploads>>

\* event_details_step2(): render_template('preview_script.html',
\* generated_script=sample_script, ...); an exception of the generator leaves
\* the handler and no page is rendered.
PreviewScript ==
  /\ call.fn = "_generate_event_script"
  /\ ~call.val.raised
  /\ call' = [fn |-> "preview_script.html", arg |-> call.arg,
              val |-> [generated_script |-> call.val.script]]
  /\ UNCHANGED <<events, guests, rsvps, hist, last, su, eoc, cf, session, uploads>>

\* confirm_and_send_invitations() with the script of the preview as
\* final_script, and make_outbound_call():
\* personalized_script = final_script.replace("{{GuestName}}", guest_name)
DispatchScript ==
  /\ call.fn = "preview_script.html"
  /\ \E guest_name \in {<<"A","l">>} :
       LET final_script == call.val.generated_script IN
       /\ final_script # <<>>
       /\ call' = [fn |-> "make_outbound_call",
                   arg |-> [final_script |-> final_script, guest_name |-> guest_name],
                   val |-> [personalized_script |->
                              ReplaceToken(final_script, GuestNameToken, guest_name)]]
  /\ UNCHANGED <<events, guests, rsvps, hist, last, su, eoc, cf, session, uploads>>

ScriptNext ==
  \/ GenerateEventScript
  \/ PreviewScript
  \/ DispatchScript

ScriptSpec == Init /\ [][ScriptNext]_vars

----------------------------------------------------------------------------
\* The correlation ids on their way out and back: make_outbound_call posts a
\* call request for a guest id and an event id, and the provider echoes the
\* metadata of that request in the end-of-call-report it delivers.

\* make_outbound_call: the payload is built and posted
PostCallRequest ==
  \E guest_id_db \in 1..MaxId, event_id \in 1..MaxId :
    /\ last.op = "start"
    /\ last' = Last("call",
                    Request("call", "", CallMetadata(guest_id_db, event_id), "absent", JNone, ""),
                    0, <<>>, FALSE,
                    DispatchAll(guests, event_id, <<guest_id_db>>, <<"call_id">>).log)
    /\ UNCHANGED <<events, guests, rsvps, hist, su, eoc, cf, session, uploads, call>>

\* webhook, end-of-call-report: guestId and eventId are read from the echoed
\* metadata and parsed
ParseEchoedMetadata ==
  /\ last.op = "call"
  /\ eoc.pc = "idle"
  /\ LET msg == Request("end-of-call-report", "ended", last.req.meta, "obj", Yes, "")
     IN eoc' = Thread("create_rsvp", msg, Addressed(msg.meta), AddressedEvent(msg.meta),
                      "", FALSE)
  /\ UNCHANGED <<events, guests, rsvps, hist, last, su, cf, session, uploads, call>>

EchoNext ==
  \/ PostCallRequest
  \/ ParseEchoedMetadata

EchoSpec == Init /\ [][EchoNext]_vars

----------------------------------------------------------------------------
\* Two /webhook requests served by two threads: each database call of a
\* handler is a step of its own, and the steps of the two threads interleave.

ConcStatusUpdates ==
  {Request("status-update", "failed", ObjMeta(g, JStr(S1)), "absent", JNone, "") :
      g \in NumericIds}

ConcEndOfCallReports ==
  {Request("end-of-call-report", "ended", ObjMeta(g, JStr(S1)), "obj", Yes, "Sounds great") :
      g \in NumericIds}

\* status-update: the metadata is read and guestId parsed
SU_Receive ==
  \E msg \in ConcStatusUpdates :
    /\ su.pc = "idle"
    /\ su' = Thread("get_guest", msg, PyInt(MetaGet(msg.meta, "guestId")).val, 0, "", FALSE)
    /\ UNCHANGED <<events, guests, rsvps, hist, last, eoc, cf, session, uploads, call>>

\* status-update: guest = postgres_client.get_guest_by_id(guest_id)
SU_GetGuest ==
  /\ su.pc = "get_guest"
  /\ su' = [su EXCEPT !.pc = "check",
                      !.seen = IF GuestExists(guests, su.guest_id)
                               THEN guests[su.guest_id].call_status ELSE ""]
  /\ UNCHANGED <<events, guests, rsvps, hist, last, eoc, cf, session, uploads, call>>

\* status-update: the guard on the status read, then update_guest_call_status
SU_Update ==
  /\ su.pc = "check"
  /\ guests' = IF su.seen # "" /\ StatusUpdateGuard(su.seen)
               THEN update_guest_call_status(guests, su.guest_id, FailedVapiStatusUpdate)
               ELSE guests
  /\ su' = [su EXCEPT !.pc = "done"]
  /\ UNCHANGED <<events, rsvps, hist, last, eoc, cf, session, uploads, call>>

\* status-update: the response is returned
SU_Return ==
  /\ su.pc = "done"
  /\ su' = Idle
  /\ last' = Last("status-update", su.req, 200, <<>>, FALSE, <<>>)
  /\ UNCHANGED <<events, guests, rsvps, hist, eoc, cf, session, uploads, call>>

\* end-of-call-report: the metadata is read and both ids parsed
EOC_Receive ==
  \E msg \in ConcEndOfCallReports :
    /\ eoc.pc = "idle"
    /\ eoc' = Thread("create_rsvp", msg, PyInt(MetaGet(msg.meta, "guestId")).val,
                     PyInt(MetaGet(msg.meta, "eventId")).val, "", FALSE)
    /\ UNCHANGED <<events, guests, rsvps, hist, last, su, cf, session, uploads, call>>

\* end-of-call-report: created_rsvp = postgres_client.create_rsvp(...)
EOC_CreateRsvp ==
  /\ eoc.pc = "create_rsvp"
  /\ LET db_rsvp_data == [response |-> Capitalize(RsvpResponseFromVapi(eoc.req.rsvp).s),
                          summary |-> eoc.req.text]
         r == create_rsvp(guests, events, rsvps, eoc.guest_id, eoc.event_id, db_rsvp_data)
     IN /\ Len(r.rsvps) <= MaxRsvps
        /\ rsvps' = r.rsvps
        /\ eoc' = [eoc EXCEPT !.pc = "update_status", !.created = r.created]
  /\ UNCHANGED <<events, guests, hist, last, su, cf, session, uploads, call>>

\* end-of-call-report: if created_rsvp: update_guest_call_status(...)
EOC_UpdateStatus ==
  /\ eoc.pc = "update_status"
  /\ guests' = EocStatusAfterRsvp(guests, eoc.guest_id, eoc.created)
  /\ eoc' = [eoc EXCEPT !.pc = "done"]
  /\ UNCHANGED <<events, rsvps, hist, last, su, cf, session, uploads, call>>

\* end-of-call-report: the response is returned
EOC_Return ==
  /\ eoc.pc = "done"
  /\ eoc' = Idle
  /\ last' = Last("end-of-call-report", eoc.req, 200, <<>>, eoc.created, <<>>)
  /\ UNCHANGED <<events, guests, rsvps, hist, su, cf, session, uploads, call>>

ConcNext ==
  \/ CreateEvent
  \/ ConfirmAndSendInvitations
  \/ SU_Receive
  \/ SU_GetGuest
  \/ SU_Update
  \/ SU_Return
  \/ EOC_Receive
  \/ EOC_CreateRsvp
  \/ EOC_UpdateStatus
  \/ EOC_Return

ConcSpec == Init /\ [][ConcNext]_vars

----------------------------------------------------------------------------
\* The RSVP rows of a guest, oldest first.
RECURSIVE RowsOf(_, _)
RowsOf(rs, g) ==
  IF rs = <<>> THEN <<>>
  ELSE IF Head(rs).guest_id = g THEN <<Head(rs)>> \o RowsOf(Tail(rs), g)
  ELSE RowsOf(Tail(rs), g)

IsPrefix(a, b) == Len(a) <= Len(b) /\ SubSeq(b, 1, Len(a)) = a

----------------------------------------------------------------------------
\* C1: a status-update(failed) delivery for a guest whose call_status is
\* "Called - RSVP Received" leaves that call_status as it is, at every
\* delivery.
C1_FailedStatusUpdateKeepsRsvpReceived ==
  [][\A g \in DOMAIN guests :
       (/\ guests[g].call_status = CalledRsvpReceived
        /\ last'.op = "status-update"
        /\ last'.req.status = "failed"
        /\ Addressed(last'.req.meta) = g)
       => guests'[g].call_status = CalledRsvpReceived]_vars

\* A failed status-update was handled for a guest that holds an RSVP.
C1_Witness ==
  /\ last.op = "status-update"
  /\ last.req.status = "failed"
  /\ Addressed(last.req.meta) \in DOMAIN guests
  /\ guests[Addressed(last.req.meta)].call_status = CalledRsvpReceived
  /\ hist[Addressed(last.req.meta)] = <<"dispatch_ok", "eoc", "su_failed">>

----------------------------------------------------------------------------
\* C2: an end-of-call-report with valid correlation ids persists "Yes", "No"
\* or "Maybe" when rsvp_response is yes, no or maybe in any letter case, and
\* "No Response" for every other value.
C2_PersistedResponseIsNormalised ==
  (last.op = "end-of-call-report" /\ last.created)
  => LET given == IF last.req.sd = "obj" THEN last.req.rsvp ELSE JNone
         persisted == rsvps[Len(rsvps)].response
     IN IF given.t = "str" /\ Lower(given.s) \in {Lower(R_Yes), Lower(R_No), Lower(R_Maybe)}
        THEN persisted \in {R_Yes, R_No, R_Maybe} /\ Lower(persisted) = Lower(given.s)
        ELSE persisted = R_NoResponse

----------------------------------------------------------------------------
\* C3: a status-update(failed) and an end-of-call-report for the same guest,
\* served concurrently: once both handlers have finished and the report's RSVP
\* row was created, the guest's call_status is "Called - RSVP Received".
C3_ConcurrentFailureNeverDowngrades ==
  (/\ su.pc = "done"
   /\ eoc.pc = "done"
   /\ su.guest_id = eoc.guest_id
   /\ eoc.created)
  => guests[eoc.guest_id].call_status = CalledRsvpReceived

----------------------------------------------------------------------------
\* C4: an end-of-call-report or a simple callback whose metadata lacks guestId
\* or eventId, or carries one that is no number, is answered 400 and changes
\* neither the guests nor the rsvps.
MissingOrNonNumeric(v) == v.t \notin {"str", "num"} \/ PyInt(v).exc # ""

C4_BadCorrelationIdsAreRejected ==
  [][(/\ last'.op \in {"end-of-call-report", "callback"}
      /\ \/ MissingOrNonNumeric(MetaGet(last'.req.meta, "guestId"))
         \/ MissingOrNonNumeric(MetaGet(last'.req.meta, "eventId")))
     => (last'.code = 400 /\ guests' = guests /\ rsvps' = rsvps)]_vars

----------------------------------------------------------------------------
\* C5: every dispatch attempt writes the guest's call_status exactly once,
\* "Called - Initiated" when the provider gave a call id and "Failed - API
\* Error" otherwise, and raises nothing.
C5_DispatchWritesStatusOnce ==
  \A i \in DOMAIN last.dispatch :
    LET d == last.dispatch[i] IN
    /\ ~d.raised
    /\ d.writes = <<IF d.outcome = "call_id" THEN CalledInitiated ELSE FailedApiError>>
    /\ guests[d.guest_id].call_status = d.writes[1]

\* A dispatch whose request raised an exception that make_outbound_call does
\* not catch.
C5_Witness ==
  /\ last.op = "confirm"
  /\ \E i \in DOMAIN last.dispatch :
        /\ last.dispatch[i].outcome = "exception"
        /\ guests[last.dispatch[i].guest_id].call_status = FailedApiError

----------------------------------------------------------------------------
\* C6: a new guest, its dispatch, then one end-of-call-report with
\* rsvp_response "yes" and summary S: exactly one RSVP row of that guest, with
\* response "Yes" and summary S, and call_status "Called - RSVP Received".
OnlyDispatchThenReport(g) ==
  /\ hist[g] \in {<<"dispatch_ok", "eoc">>, <<"dispatch_failed", "eoc">>}
  /\ last.op = "end-of-call-report"
  /\ Addressed(last.req.meta) = g
  /\ ValidCorrelation(last.req.meta)
  /\ last.req.sd = "obj"
  /\ last.req.rsvp = Yes

C6_DispatchThenYesReport ==
  \A g \in DOMAIN guests :
    OnlyDispatchThenReport(g)
    => /\ Len(RowsOf(rsvps, g)) = 1
       /\ RowsOf(rsvps, g)[1].response = R_Yes
       /\ RowsOf(rsvps, g)[1].summary = last.req.text
       /\ guests[g].call_status = CalledRsvpReceived

C6_Witness ==
  \E g \in DOMAIN guests :
    /\ OnlyDispatchThenReport(g)
    /\ last.req.text = "Sounds great"
    /\ hist[g][1] = "dispatch_ok"

----------------------------------------------------------------------------
\* C7: from "Called - Initiated", one status-update(failed) and one
\* end-of-call-report, in either order, end in "Called - RSVP Received" with
\* exactly one RSVP row.
C7_EitherOrderEndsInRsvpReceived ==
  \A g \in DOMAIN guests :
    hist[g] \in {<<"dispatch_ok", "su_failed", "eoc">>, <<"dispatch_ok", "eoc", "su_failed">>}
    => /\ guests[g].call_status = CalledRsvpReceived
       /\ Len(RowsOf(rsvps, g)) = 1

----------------------------------------------------------------------------
----------------------------------------------------------------------------
\* C9: every RSVP row names an existing guest and that guest's event.
C9_RsvpEventIsGuestEvent ==
  \A i \in DOMAIN rsvps :
    /\ rsvps[i].guest_id \in DOMAIN guests
    /\ rsvps[i].event_id \in DOMAIN events
    /\ guests[rsvps[i].guest_id].event_id = rsvps[i].event_id

----------------------------------------------------------------------------
\* C10: rows are only ever appended, and every end-of-call-report with the
\* correlation ids of an existing guest and event appends exactly one.
C10_RsvpsAppendOnly ==
  [][/\ IsPrefix(rsvps, rsvps')
     /\ (last'.op = "end-of-call-report" /\ ValidCorrelation(last'.req.meta))
        => Len(rsvps') = Len(rsvps) + 1]_vars

----------------------------------------------------------------------------
\* C11: a simple callback with valid correlation ids, status "ended" or
\* "success" and a transcript creates one RSVP row with the classified
\* response and sets call_status to "Called - RSVP Received".
C11_CallbackWithTextLogsRsvp ==
  [][(/\ last'.op = "callback"
      /\ last'.req.status \in {"ended", "success"}
      /\ last'.req.text # ""
      /\ ValidCorrelation(last'.req.meta))
     => /\ Len(rsvps') = Len(rsvps) + 1
        /\ rsvps'[Len(rsvps')].guest_id = Addressed(last'.req.meta)
        /\ rsvps'[Len(rsvps')].response = ClassifyTranscription(last'.req.text)
        /\ guests'[Addressed(last'.req.meta)].call_status = CalledRsvpReceived]_vars

----------------------------------------------------------------------------
\* C12: a simple callback with valid correlation ids, status "ended" or
\* "success" and no transcript sets call_status to "Called - No Response",
\* never to "Called - RSVP Received".
C12_CallbackWithoutTextIsNoResponse ==
  [][(/\ last'.op = "callback"
      /\ last'.req.status \in {"ended", "success"}
      /\ last'.req.text = ""
      /\ ValidCorrelation(last'.req.meta))
     => guests'[Addressed(last'.req.meta)].call_status = "Called - No Response"]_vars

----------------------------------------------------------------------------
\* C13: a status-update reporting "failed" whose metadata has a missing or
\* non-numeric guestId is answered 400, never 200.
C13_BadStatusUpdateIsRejected ==
  [][(/\ last'.op = "status-update"
      /\ last'.req.status = "failed"
      /\ MissingOrNonNumeric(MetaGet(last'.req.meta, "guestId")))
     => last'.code = 400]_vars

----------------------------------------------------------------------------
\* C14: /webhook answers 200 to every message whose correlation ids are
\* present and numeric, whatever its type and its analysis.
C14_WebhookAlwaysAnswers200 ==
  (/\ last.op \in {"status-update", "end-of-call-report", "other"}
   /\ ~MissingOrNonNumeric(MetaGet(last.req.meta, "guestId"))
   /\ ~MissingOrNonNumeric(MetaGet(last.req.meta, "eventId")))
  => last.code = 200

----------------------------------------------------------------------------
\* C15: for the same guest list and the same provider outcome the bulk
\* dispatch leaves every guest with the call_status the per-guest dispatch
\* leaves, and the end-of-call-reports that echo the metadata of either
\* request advance the same guests to the same statuses.
EchoedReport(meta) == Request("end-of-call-report", "ended", meta, "obj", Yes, "")

C15_BulkDispatchIsEquivalent ==
  [][(last'.op = "confirm" /\ last'.dispatch # <<>>)
     => LET log == last'.dispatch
            event_id == log[1].event_id
            ids == [i \in DOMAIN log |-> log[i].guest_id]
            listed == add_guests_batch(guests, event_id, Len(log))
            bulk == make_bulk_outbound_call(listed, event_id, ids, log[1].outcome)
        IN (\A i \in DOMAIN log : log[i].outcome = log[1].outcome)
           => \A i \in DOMAIN log :
                /\ bulk.guests[ids[i]].call_status = guests'[ids[i]].call_status
                /\ WebhookEndOfCallReport(bulk.guests, events', rsvps,
                                          EchoedReport(bulk.metadata)).guests[ids[i]].call_status
                   = WebhookEndOfCallReport(guests', events', rsvps,
                                            EchoedReport(log[i].metadata)).guests[ids[i]].call_status]_vars

----------------------------------------------------------------------------
\* C16: the metadata of every call request the per-guest dispatcher posts
\* holds the decimal strings of the guest's and the event's ids, and the
\* webhook's parsing of the echoed metadata gives back exactly those ids.
IsStringFormOf(v, n) ==
  /\ v.t = "str"
  /\ IsDigits(v.s)
  /\ DigitsValue(v.s) = n
  /\ (Len(v.s) = 1 \/ v.s[1] # "0")

C16_MetadataRoundTrip ==
  \A i \in DOMAIN last.dispatch :
    LET d == last.dispatch[i] IN
    /\ IsStringFormOf(d.metadata.guestId, d.guest_id)
    /\ IsStringFormOf(d.metadata.eventId, d.event_id)
    /\ (last.op = "call" /\ eoc.pc # "idle")
       => (eoc.guest_id = d.guest_id /\ eoc.event_id = d.event_id)

\* A two-digit guest id and a two-digit event id went out and came back.
C16_Witness ==
  /\ last.op = "call"
  /\ eoc.pc = "create_rsvp"
  /\ Len(last.req.meta.guestId.s) = 2
  /\ Len(last.req.meta.eventId.s) = 2
  /\ eoc.guest_id # eoc.event_id
  /\ eoc.guest_id = last.dispatch[1].guest_id

----------------------------------------------------------------------------
\* C17 as stated: "Called - RSVP Received", "Called - No Response" and
\* "Failed - VAPI Status Update" are entered only from "Called - Initiated".
C17_TerminalOnlyFromInitiated ==
  [][\A g \in DOMAIN guests :
       (/\ guests'[g].call_status # guests[g].call_status
        /\ guests'[g].call_status \in {CalledRsvpReceived, "Called - No Response",
                                        FailedVapiStatusUpdate})
       => guests[g].call_status = CalledInitiated]_vars

\* C17, amended: a new guest leaves "Not Called" within its dispatch, for
\* "Called - Initiated" or "Failed - API Error", and no status is ever entered
\* from "Not Called" afterwards; "Failed - VAPI Status Update" is entered only
\* from "Called - Initiated"; "Called - RSVP Received" is entered from any of
\* "Called - Initiated", "Failed - API Error" and "Failed - VAPI Status
\* Update"; "Called - No Response" and "Not Called" are never entered.
C17_StatusTransitions ==
  [][/\ \A g \in DOMAIN guests :
          LET was == guests[g].call_status
              is == guests'[g].call_status
          IN was # is
             => /\ was # NotCalled
                /\ is \notin {NotCalled, "Called - No Response"}
                /\ (is = FailedVapiStatusUpdate) => (was = CalledInitiated)
                /\ (is = CalledRsvpReceived)
                   => (was \in {CalledInitiated, FailedApiError, FailedVapiStatusUpdate})
     /\ \A g \in DOMAIN guests' :
          g \notin DOMAIN guests
          => guests'[g].call_status \in {CalledInitiated, FailedApiError}]_vars

\* An end-of-call-report has taken a guest from "Failed - API Error" to
\* "Called - RSVP Received".
C17_Witness ==
  \E g \in DOMAIN guests :
    /\ hist[g] = <<"dispatch_failed", "eoc">>
    /\ last.op = "end-of-call-report"
    /\ last.writes = <<<<g, CalledRsvpReceived>>>>
    /\ guests[g].call_status = CalledRsvpReceived

----------------------------------------------------------------------------
\* C18: an event whose status is "Calls Initiated" or "Processed - No
\* Guests" never has status "processing" again.
C18_EventStatusOnlyForward ==
  [][\A e \in DOMAIN events :
       events[e].status \in {"Calls Initiated", "Processed - No Guests"}
       => events'[e].status # "processing"]_vars

----------------------------------------------------------------------------
\* C19: every guest that is to be persisted has a phone number of the form
\* '+' and one or more digits, and a number is accepted exactly if it has
\* that form, on the CSV path and on the manual-entry path.
MatchesE164(phone) ==
  /\ Len(phone) >= 2
  /\ phone[1] = "+"
  /\ \A i \in 2..Len(phone) : IndexIn(phone[i], DigitChars) > 0

C19_OnlyE164PhonesAccepted ==
  /\ call.fn = "parse_csv_to_guests"
     => \A i \in DOMAIN call.val : MatchesE164(call.val[i].PhoneNumber)
  /\ call.fn = "manual_phone"
     => (call.val <=> MatchesE164(call.arg))

----------------------------------------------------------------------------
\* C20: a submission of step 1 or of the event-details step that is answered
\* with a validation error (a required field missing, a date or time of the
\* wrong format) leaves the events, the guests, the upload folder and the
\* session as they were before the request.
ValidationErrors ==
  {"Please fill in all required fields.",
   "Please fill in all required fields for this step.",
   "Invalid date or time format. Please use YYYY-MM-DD for dates and HH:MM for time."}

C20_FailedValidationMutatesNothing ==
  [][(/\ call'.fn \in {"index", "event_details_step2"}
      /\ call'.arg = "POST"
      /\ call'.val.flash \in ValidationErrors)
     => UNCHANGED <<events, guests, uploads, session>>]_vars

----------------------------------------------------------------------------
\* C24: parse_csv_to_guests returns exactly the rows whose name and phone
\* are both non-empty after trimming, in file order; a row that lacks a field
\* is skipped and the rows after it are still read; a missing file gives the
\* empty list.
RECURSIVE RowsWithBothFields(_, _, _)
RowsWithBothFields(rows, n, p) ==
  IF rows = <<>> THEN <<>>
  ELSE LET row == Head(rows)
           rest == RowsWithBothFields(Tail(rows), n, p)
       IN IF /\ n <= Len(row) /\ p <= Len(row)
             /\ Strip(row[n]) # <<>> /\ Strip(row[p]) # <<>>
          THEN <<[GuestName |-> Strip(row[n]), PhoneNumber |-> Strip(row[p])]>> \o rest
          ELSE rest

C24_ParserKeepsCompleteRows ==
  call.fn = "parse_csv_to_guests"
  => LET file == call.arg
         n == LastColumn(file.fieldnames, Len(file.fieldnames), TRUE)
         p == LastColumn(file.fieldnames, Len(file.fieldnames), FALSE)
     IN /\ ~file.found => call.val = <<>>
        /\ (file.found /\ n > 0 /\ p > 0)
           => call.val = RowsWithBothFields(file.rows, n, p)

\* C25: the name column is found under guestname, name, full name and guest
\* name, the phone column under phonenumber, phone, contact number and mobile
\* number, whatever the case and the spaces of the header; a header without
\* one of the two columns gives the empty list.
ListedColumn(fieldnames, keys) ==
  LET listed == {RemoveSpaces(k) : k \in keys}
      hits == {i \in 1..Len(fieldnames) :
                 RemoveSpaces(Strip(Lower(fieldnames[i]))) \in listed}
  IN IF hits = {} THEN 0 ELSE CHOOSE i \in hits : \A j \in hits : j <= i

C25_HeaderVariantsRecognised ==
  (/\ call.fn = "parse_csv_to_guests"
   /\ call.arg.found
   /\ \A i \in DOMAIN call.arg.rows : Len(call.arg.rows[i]) = Len(call.arg.fieldnames))
  => LET file == call.arg
         n == ListedColumn(file.fieldnames, name_keys)
         p == ListedColumn(file.fieldnames, phone_keys)
     IN IF n = 0 \/ p = 0 THEN call.val = <<>>
        ELSE call.val = RowsWithBothFields(file.rows, n, p)

----------------------------------------------------------------------------
\* C26: an end-of-call-report with numeric correlation ids writes
\* "Called - RSVP Received" exactly when create_rsvp created the RSVP row;
\* when the ids name no existing guest or no existing event, no row is
\* created, no call_status changes and the answer is still 200.
C26_StatusWrittenIffRsvpCreated ==
  [][(/\ last'.op = "end-of-call-report"
      /\ MetaGet(last'.req.meta, "guestId") \in NumericIds
      /\ MetaGet(last'.req.meta, "eventId") \in NumericIds)
     => /\ last'.code = 200
        /\ (Len(rsvps') = Len(rsvps) + 1) <=> ValidCorrelation(last'.req.meta)
        /\ (Len(rsvps') = Len(rsvps) + 1)
           => /\ guests'[Addressed(last'.req.meta)].call_status = CalledRsvpReceived
              /\ last'.writes = <<<<Addressed(last'.req.meta), CalledRsvpReceived>>>>
        /\ (Len(rsvps') # Len(rsvps) + 1)
           => /\ rsvps' = rsvps
              /\ guests' = guests
              /\ last'.writes = <<>>]_vars

\* A report for an existing guest and an event that does not exist was
\* answered 200 and created nothing.
C26_Witness ==
  /\ last.op = "end-of-call-report"
  /\ last.code = 200
  /\ ~last.created
  /\ Addressed(last.req.meta) \in DOMAIN guests
  /\ AddressedEvent(last.req.meta) \notin DOMAIN events
  /\ AddressedEvent(last.req.meta) # 0
  /\ guests[Addressed(last.req.meta)].call_status # CalledRsvpReceived

----------------------------------------------------------------------------
\* C27: when confirm_and_send_invitations has dispatched calls for a
\* non-empty guest list, the event is "Calls Initiated" only if the provider
\* returned a call id for at least one guest, and is "processing" when it
\* returned none.
C27_CallsInitiatedNeedsACall ==
  [][(/\ last'.op = "confirm"
      /\ last'.dispatch # <<>>)
     => LET e == last'.dispatch[1].event_id
            initiated == \E i \in DOMAIN last'.dispatch :
                            last'.dispatch[i].outcome = "call_id"
        IN /\ events'[e].status = "Calls Initiated" => initiated
           /\ ~initiated => events'[e].status = "processing"]_vars

----------------------------------------------------------------------------
\* C28: the RSVP a "success" callback logs is "Yes" when the transcript
\* contains "yes", and "Maybe" when it contains "not sure" and neither "yes"
\* nor "maybe".
C28_NotSureIsMaybe ==
  (/\ last.op = "callback"
   /\ last.req.status = "success"
   /\ last.created)
  => LET transcript == Lower(Chars(last.req.text))
         logged == rsvps[Len(rsvps)].response
     IN /\ Contains(transcript, <<"y","e","s">>) => logged = R_Yes
        /\ (/\ Contains(transcript, <<"n","o","t"," ","s","u","r","e">>)
            /\ ~Contains(transcript, <<"y","e","s">>)
            /\ ~Contains(transcript, <<"m","a","y","b","e">>))
           => logged = R_Maybe

----------------------------------------------------------------------------
\* C29: in every state the deliveries can reach, the summary of an event
\* counts under yes, no and maybe the RSVP rows of the event with that
\* response, and under pending the guests of the event minus those three.
RowsWithResponse(e, response) ==
  Cardinality({i \in DOMAIN rsvps : rsvps[i].event_id = e /\ rsvps[i].response = response})

C29_SummaryCountsRows ==
  \A e \in DOMAIN events :
    LET summary == get_rsvp_summary_for_event(guests, rsvps, e)
        total == Cardinality({g \in DOMAIN guests : guests[g].event_id = e})
    IN /\ summary.yes = RowsWithResponse(e, R_Yes)
       /\ summary.no = RowsWithResponse(e, R_No)
       /\ summary.maybe = RowsWithResponse(e, R_Maybe)
       /\ summary.pending = total - (summary.yes + summary.no + summary.maybe)

----------------------------------------------------------------------------
\* C30: whatever the order of the wizard's requests, an event whose voice is
\* the custom one (its voice_sample_id is none of the two default voices)
\* holds the non-empty voice id that a voice-cloning step returned.
C30_CustomVoiceHasSampleId ==
  \A e \in DOMAIN events :
    events[e].voice_sample_id \notin {MaleVoiceId, FemaleVoiceId}
    => events[e].voice_sample_id = "voice-1"

----------------------------------------------------------------------------
\* C21: when the template cannot be read the generator returns the error
\* sentinel, the sentinel is never the script offered in the preview, and no
\* call is dispatched with the sentinel as its script.
C21_SentinelIsNeverOffered ==
  /\ (call.fn = "_generate_event_script" /\ call.arg.template # "readable")
     => (~call.val.raised /\ call.val.script = ErrorSentinel)
  /\ call.fn = "preview_script.html" => call.val.generated_script # ErrorSentinel
  /\ call.fn = "make_outbound_call" => call.val.personalized_script # ErrorSentinel

\* C22: the script generated from a readable template holds none of the
\* bracketed placeholders any more and holds the token {{GuestName}} exactly
\* once, whatever the field values of the event.
Placeholders == {PromptTemplate[i] : i \in {j \in DOMAIN PromptTemplate : j % 2 = 0}}

C22_ScriptFullySubstituted ==
  (call.fn = "_generate_event_script" /\ call.arg.template = "readable")
  => LET script == call.val.script IN
     /\ \A i \in DOMAIN script : script[i] \notin Placeholders
     /\ Cardinality({i \in DOMAIN script : script[i] = GuestNameToken}) = 1

\* C23: the value put for [DressCode] is the text after "dress code" in
\* special_instructions, behind an optional ':' or 'is', up to the next
\* period or semicolon, with all of its characters; it is "not specified"
\* when special_instructions does not hold "dress code".
DropSeparator(s) ==
  LET t == LStrip(s) IN
  IF t # <<>> /\ Head(t) = ":" THEN LStrip(Tail(t))
  ELSE IF Len(t) >= 3 /\ SubSeq(t, 1, 3) = <<"i","s"," ">> THEN LStrip(SubSeq(t, 4, Len(t)))
  ELSE t

StatedDressCode(special_instructions) ==
  LET at == Find(Lower(special_instructions), <<"d","r","e","s","s"," ","c","o","d","e">>) IN
  IF at = -1 THEN <<"n","o","t"," ","s","p","e","c","i","f","i","e","d">>
  ELSE LET after == DropSeparator(SubSeq(special_instructions, at + 11,
                                         Len(special_instructions)))
       IN Strip(SplitOn(SplitOn(after, ".")[1], ";")[1])

DressCodeAt == CHOOSE i \in DOMAIN PromptTemplate : PromptTemplate[i] = <<"[","D","r","e","s","s","C","o","d","e","]">>

C23_DressCodeIsTheTextAfterTheMarker ==
  (call.fn = "_generate_event_script" /\ call.arg.template = "readable")
  => call.val.script[DressCodeAt] = StatedDressCode(call.arg.event.special_instructions)


====
